---- MODULE Spec2Model ----
(***************************************************************************)
(* Model of app.py, the Streamlit workout logger: one script run per user  *)
(* interaction (LOG SESSION submit, a plain rerun, GENERATE REPORT), the   *)
(* Log Store sheet "Exercises", the st.cache_resource connection handle    *)
(* and the st.cache_data(ttl=60) cache of load_data.                       *)
(*                                                                         *)
(* Representation: a string the code edits (the exercise name) is a        *)
(* sequence of one-character strings; every other cell is represented by   *)
(* its text; a date is the day number (strftime("%Y-%m-%d") orders dates   *)
(* as the day numbers do).                                                 *)
(***************************************************************************)
EXTENDS Integers, Sequences, FiniteSets, TLC

\* ---------------------------------------------------------------- bounds
MaxRows == 2        \* rows the Log Store may hold
MaxItems == 2       \* elements of a JSON array returned by the model
MaxTable == 3       \* rows of a table drawn for the STATS computation

\* the days datetime.now() may report
Days == {1, 2}

\* ------------------------------------------------------- str.title / strip
LowerCase == <<"a", "b", "k", "n", "o", "u", "w">>
UpperCase == <<"A", "B", "K", "N", "O", "U", "W">>

Range(s) == {s[i] : i \in DOMAIN s}

IsLower(c) == c \in Range(LowerCase)
IsUpper(c) == c \in Range(UpperCase)
IsCased(c) == IsLower(c) \/ IsUpper(c)

IndexOf(c, s) == CHOOSE i \in DOMAIN s : s[i] = c

Upper(c) == IF IsLower(c) THEN UpperCase[IndexOf(c, LowerCase)] ELSE c
Lower(c) == IF IsUpper(c) THEN LowerCase[IndexOf(c, UpperCase)] ELSE c

\* str.title(): a cased character is upper-cased when the character before
\* it is not cased (or it is the first one), lower-cased otherwise.
Title(s) ==
    [i \in DOMAIN s |->
        IF i > 1 /\ IsCased(s[i - 1]) THEN Lower(s[i]) ELSE Upper(s[i])]

IsSpace(c) == c = " "

RECURSIVE LStrip(_)
LStrip(s) ==
    IF s # <<>> /\ IsSpace(Head(s)) THEN LStrip(Tail(s)) ELSE s

RECURSIVE RStrip(_)
RStrip(s) ==
    IF s # <<>> /\ IsSpace(s[Len(s)])
    THEN RStrip(SubSeq(s, 1, Len(s) - 1))
    ELSE s

\* str.strip()
Strip(s) == RStrip(LStrip(s))

\* ------------------------------------------------------------ JSON values
Keys == {"exercise", "muscle_group", "weight", "reps", "notes"}

\* decoded JSON objects the model may return; a key may be missing
ObjFull50 ==
    [exercise |-> <<"a", "b">>, muscle_group |-> "Legs", weight |-> "50",
     reps |-> "10", notes |-> ""]
ObjBare == [exercise |-> <<" ", "a">>, weight |-> "bw"]
ObjNotes == [notes |-> "pr", reps |-> "8"]

Objects == {ObjFull50, ObjBare, ObjNotes}

\* an element of a decoded array: an object, or a value that is no object
DictItem(o) == [isdict |-> TRUE, d |-> o]
OtherItem == [isdict |-> FALSE, d |-> <<>>]
Items == {DictItem(o) : o \in Objects} \cup {OtherItem}

\* Python values json.loads can return (and None)
PyNone == [type |-> "None", n |-> 0, items |-> <<>>]
PyInt(k) == [type |-> "int", n |-> k, items |-> <<>>]
PyStr(len) == [type |-> "str", n |-> len, items |-> <<>>]
PyDict(o) == [type |-> "dict", n |-> 0, items |-> <<DictItem(o)>>]
PyList(its) == [type |-> "list", n |-> 0, items |-> its]

SeqsUpTo(S, k) == UNION {[1..m -> S] : m \in 0..k}

JsonValues ==
    {PyNone, PyInt(0), PyInt(5), PyStr(0), PyStr(3)}
        \cup {PyDict(o) : o \in {ObjFull50, <<>>}}
        \cup {PyList(its) : its \in SeqsUpTo(Items, MaxItems)}

\* bool(value), as "if workout_data:" evaluates it
Truthy(v) ==
    CASE v.type = "None" -> FALSE
      [] v.type = "int" -> v.n # 0
      [] v.type = "str" -> v.n # 0
      [] v.type = "dict" -> DOMAIN v.items[1].d # {}
      [] v.type = "list" -> Len(v.items) > 0

\* ------------------------------------------------ the Extraction Service
\* response.text: an optional code fence around a body
Bodies ==
    {[kind |-> k, value |-> PyNone] : k \in {"garbage", "truncated", "empty"}}
        \cup {[kind |-> "json", value |-> v] : v \in JsonValues}

ServiceError == [error |-> TRUE, fence |-> "none", body |-> [kind |-> "empty", value |-> PyNone]]
Responses ==
    {ServiceError}
        \cup {[error |-> FALSE, fence |-> f, body |-> b] :
                f \in {"none", "json", "plain"}, b \in Bodies}

\* response.text.replace("```json", "").replace("```", "").strip()
Clean(resp) == resp.body

\* json.loads(cleaned_text): the value, or a raise
JsonLoads(body) ==
    IF body.kind = "json"
    THEN [raised |-> FALSE, value |-> body.value]
    ELSE [raised |-> TRUE, value |-> PyNone]

parse_workout(resp) ==
    IF resp.error
    THEN PyNone
    ELSE LET r == JsonLoads(Clean(resp))
         IN IF r.raised THEN PyNone ELSE r.value

\* ------------------------------------------------------ the Log Store row
Header == <<"Date", "Exercise", "Weight", "Reps", "Notes", "Muscle Group">>

Unknown == <<"U", "n", "k", "n", "o", "w", "n">>

\* item.get(key, default)
Get(o, k, default) == IF k \in DOMAIN o THEN o[k] ELSE default

\* faulty variant: weight and reps written in each other's column
RowOfSwapped(date_only, item) ==
    <<date_only,
      Title(Get(item, "exercise", Unknown)),
      Get(item, "reps", "0"),
      Get(item, "weight", "0"),
      Get(item, "notes", ""),
      Get(item, "muscle_group", "Other")>>

\* one element of rows (lines 131-138)
RowOf(date_only, item) ==
    <<date_only,
      Title(Get(item, "exercise", Unknown)),
      Get(item, "weight", "0"),
      Get(item, "reps", "0"),
      Get(item, "notes", ""),
      Get(item, "muscle_group", "Other")>>

\* what the loop of lines 129-138 over workout_data raises ("" when it
\* runs through): a value that is no list of objects raises TypeError at
\* the for of an int, AttributeError at .get otherwise
BuildRaised(workout_data) ==
    CASE workout_data.type = "int" -> "TypeError"
      [] workout_data.type \in {"str", "dict"} -> "AttributeError"
      [] workout_data.type = "list" ->
            IF \E i \in DOMAIN workout_data.items : ~workout_data.items[i].isdict
            THEN "AttributeError"
            ELSE ""
      [] OTHER -> "TypeError"

\* rows, once the loop has run through
BuildRows(workout_data, date_only) ==
    [i \in DOMAIN workout_data.items |->
        RowOf(date_only, workout_data.items[i].d)]

\* the result cards (lines 146-157) index item['muscle_group'],
\* item['exercise'], item['weight'], item['reps'] without a default
CardKeys == {"muscle_group", "exercise", "weight", "reps"}

CardsRaise(workout_data) ==
    \E i \in DOMAIN workout_data.items :
        ~(CardKeys \subseteq DOMAIN workout_data.items[i].d)

RECURSIVE Flatten(_)
Flatten(calls) ==
    IF calls = <<>> THEN <<>> ELSE Head(calls) \o Flatten(Tail(calls))

\* faulty variant: one append call per row
AppendCallsPerRow(rows) == [i \in DOMAIN rows |-> <<rows[i]>>]

\* ex_sheet.append_rows(rows): the append calls made on the sheet
AppendCalls(rows) == <<rows>>

\* faulty variant: a row the sheet already holds is not written again
RECURSIVE AppendRowsUpsert(_, _)
AppendRowsUpsert(st, calls) ==
    IF Flatten(calls) = <<>> THEN st
    ELSE LET row == Head(Flatten(calls))
         IN AppendRowsUpsert(IF row \in Range(st) THEN st ELSE Append(st, row),
                             <<Tail(Flatten(calls))>>)

\* what the calls do to the sheet: every row goes below the last one
AppendRows(st, calls) == st \o Flatten(calls)

\* ----------------------------------------------------------------- state
VARIABLES
    store,      \* data rows of the sheet "Exercises" of "My Workout DB"
    handle,     \* client held by st.cache_resource (0: none yet)
    cache,      \* entry of st.cache_data for load_data
    op,         \* the last step: which script run, or the cache expiry
    reply,      \* the Extraction Service response parse_workout was given
    parsed,     \* the value parse_workout returned for reply
    logged,     \* workout_data of the run, once append_rows has returned
    wout,       \* how far the write path of the run got
    appends,    \* the append calls the run made on the sheet
    msgs,       \* st.success / st.error messages of tab 1, in order
    rout,       \* how load_data answered in the run
    df,         \* the table load_data returned in the run
    stats,      \* what tab 2 rendered
    coach       \* what tab 3 rendered

vars ==
    <<store, handle, cache, op, reply, parsed, logged, wout, appends, msgs, rout, df,
      stats, coach>>

\* ------------------------------------------------------ get_db_connection
\* faulty variant: a client is built on every call
get_db_connection_uncached(h, built) ==
    IF built
    THEN [raised |-> FALSE, client |-> h + 1]
    ELSE [raised |-> TRUE, client |-> h]

\* st.cache_resource: the client is built on the first call and kept
get_db_connection(h, built) ==
    IF h # 0
    THEN [raised |-> FALSE, client |-> h]
    ELSE IF built
         THEN [raised |-> FALSE, client |-> h + 1]
         ELSE [raised |-> TRUE, client |-> h]

\* outcomes of the Log Store for one use of the client: "connect" is a
\* raise while the client is built, "stale" a raise because the kept client
\* is no longer valid, "open" a raise of open/worksheet/get_all_records,
\* "append" a raise of append_rows
WriteOutcomes == {"ok", "connect", "open", "stale", "append"}
ReadOutcomes == {"ok", "connect", "open", "stale"}

Possible(h, o) == (o = "connect" => h = 0) /\ (o = "stale" => h # 0)

\* ------------------------------------------------------- tab 1 (119-162)
Success(n) == [kind |-> "success", cause |-> "", n |-> n]
Error(e) == [kind |-> "error", cause |-> e, n |-> 0]
AIError == [kind |-> "ai_error", cause |-> "", n |-> 0]

EmptyCache == [valid |-> FALSE, table |-> <<>>]

\* faulty variant: the entry survives the append
CacheKept(c) == c

\* st.cache_data.clear() follows append_rows inside the try block (141)
CacheOnSuccess(c) == EmptyCache

\* faulty variant: the entry is dropped on a raise as well
CacheCleared(c) == EmptyCache

\* the except branch (159-160) only reports: a raise before line 141
\* leaves the entry of load_data as it was
CacheOnError(c) == c

NotLogged == PyList(<<>>)

Tab1Result(st, c, h, w, calls, m, wd) ==
    [store |-> st, cache |-> c, handle |-> h, wout |-> w, appends |-> calls,
     msgs |-> m, logged |-> wd]

LogSession(workout_data, w, date_only, st, c, h) ==
    IF ~Truthy(workout_data)
    THEN Tab1Result(st, c, h, "none", <<>>, <<AIError>>, NotLogged)
    ELSE
    LET conn == get_db_connection(h, w # "connect")
        raised == BuildRaised(workout_data)
        rows == BuildRows(workout_data, date_only)
        calls == AppendCalls(rows)
    IN  CASE conn.raised ->
                Tab1Result(st, CacheOnError(c), h, "connect", <<>>,
                           <<Error("connect")>>, NotLogged)
          [] ~conn.raised /\ w \in {"open", "stale"} ->
                Tab1Result(st, CacheOnError(c), conn.client, w, <<>>,
                           <<Error(w)>>, NotLogged)
          [] ~conn.raised /\ w \notin {"open", "stale"} /\ raised # "" ->
                Tab1Result(st, CacheOnError(c), conn.client, "build", <<>>,
                           <<Error(raised)>>, NotLogged)
          [] ~conn.raised /\ w = "append" /\ raised = "" ->
                Tab1Result(st, CacheOnError(c), conn.client, "append", <<>>,
                           <<Error("append")>>, NotLogged)
          [] OTHER ->
                Tab1Result(AppendRows(st, calls), CacheOnSuccess(c),
                           conn.client, "ok", calls,
                           <<Success(Len(rows))>> \o
                           (IF CardsRaise(workout_data)
                            THEN <<Error("KeyError")>>
                            ELSE <<>>),
                           workout_data)

\* -------------------------------------------------- load_data (169-180)
\* sheet.get_all_records(): one record per data row, keyed by the header
RecordOf(row) == [k \in Range(Header) |-> row[IndexOf(k, Header)]]

get_all_records(st) == [i \in DOMAIN st |-> RecordOf(st[i])]

\* df['Exercise'].astype(str).str.title().str.strip(); the header row of
\* the sheet names all six columns, so 'Muscle Group' is always a column
\* and line 177 adds nothing
Normalise(r) == [r EXCEPT !["Exercise"] = Strip(Title(r["Exercise"]))]

\* the body of load_data: an empty sheet has no 'Exercise' column, which
\* raises like an unreachable store does, and yields the empty table
Fetch(st, h, r) ==
    LET conn == get_db_connection(h, r # "connect")
    IN  IF conn.raised
        THEN [df |-> <<>>, handle |-> h, rout |-> "connect"]
        ELSE IF r \in {"open", "stale"}
        THEN [df |-> <<>>, handle |-> conn.client, rout |-> r]
        ELSE IF get_all_records(st) = <<>>
        THEN [df |-> <<>>, handle |-> conn.client, rout |-> "empty"]
        ELSE [df |-> [i \in DOMAIN st |-> Normalise(get_all_records(st)[i])],
              handle |-> conn.client, rout |-> "ok"]

\* st.cache_data(ttl=60): a live entry answers without running the body
load_data(c, st, h, r) ==
    IF c.valid
    THEN [df |-> c.table, cache |-> c, handle |-> h, rout |-> "hit"]
    ELSE LET f == Fetch(st, h, r)
         IN [df |-> f.df, cache |-> [valid |-> TRUE, table |-> f.df],
             handle |-> f.handle, rout |-> f.rout]

\* ------------------------------------------------------- tab 2 (184-213)
NaN == 0 - 1    \* the missing value pd.to_numeric(errors='coerce') yields

Numerals == <<"0", "50", "65", "70">>
NumeralValue == <<0, 50, 65, 70>>

\* pd.to_numeric(cell, errors='coerce')
ToNumeric(text) ==
    IF text \in Range(Numerals)
    THEN NumeralValue[IndexOf(text, Numerals)]
    ELSE NaN

\* faulty variant: the values that are not missing are added up
RECURSIVE SeriesSum(_)
SeriesSum(ws) ==
    IF ws = <<>> THEN NaN
    ELSE LET rest == SeriesSum(Tail(ws))
         IN  IF Head(ws) = NaN THEN rest
             ELSE IF rest = NaN THEN Head(ws)
             ELSE Head(ws) + rest

\* Series.max(): the largest value that is not missing, NaN when none is
RECURSIVE SeriesMax(_)
SeriesMax(ws) ==
    IF ws = <<>> THEN NaN
    ELSE LET rest == SeriesMax(Tail(ws))
         IN  IF Head(ws) = NaN THEN rest
             ELSE IF rest = NaN THEN Head(ws)
             ELSE IF Head(ws) >= rest THEN Head(ws) ELSE rest

\* sorted(values)
RECURSIVE Sorted(_)
Sorted(S) ==
    IF S = {} THEN <<>>
    ELSE LET m == CHOOSE x \in S : \A y \in S : x <= y
         IN <<m>> \o Sorted(S \ {m})

Column(t, k) == [i \in DOMAIN t |-> t[i][k]]

\* df[df[k] == v]
Where(t, k, v) == SelectSeq(t, LAMBDA r : r[k] = v)

\* ex_data.groupby('Date')['Weight'].max().reset_index()
GroupMax(ex_data) ==
    LET dates == Sorted(Range(Column(ex_data, "Date")))
    IN  [i \in DOMAIN dates |->
            [Date |-> dates[i],
             Weight |-> SeriesMax(Column(Where(ex_data, "Date", dates[i]),
                                         "Weight"))]]

NoStats == [shown |-> FALSE, group |-> "", ex |-> <<>>, progress |-> <<>>,
            max_lift |-> NaN]

\* the chart and the ALL TIME BEST badge for the two selectbox values
Tab2(t, selected_group, selected_ex) ==
    LET subset == Where(t, "Muscle Group", selected_group)
        ex_data == [i \in DOMAIN Where(subset, "Exercise", selected_ex) |->
                      [Where(subset, "Exercise", selected_ex)[i] EXCEPT
                          !["Weight"] = ToNumeric(@)]]
        progress == GroupMax(ex_data)
    IN  [shown |-> TRUE, group |-> selected_group, ex |-> selected_ex,
         progress |-> progress,
         max_lift |-> SeriesMax(Column(progress, "Weight"))]

\* what tab 2 can render for a table: nothing for the empty table, else the
\* chart of any group of the table and any exercise of that group (a group
\* of the table has an exercise, so the branch of line 213 is never taken)
Tab2Choices(t) ==
    IF t = <<>>
    THEN {NoStats}
    ELSE {Tab2(t, g, e) :
            <<g, e>> \in {<<t[i]["Muscle Group"], t[i]["Exercise"]>> :
                            i \in DOMAIN t}}

\* ------------------------------------------------------- tab 3 (222-244)
\* faulty variant: the button is offered for the empty table too
Tab3IdleAlways(t) == "button"

\* without a click: the button for a table with rows, the note otherwise
Tab3Idle(t) == IF t = <<>> THEN "info" ELSE "button"

\* get_coach_advice (79-100): the model's text, or the fallback
Tab3Click(t, ai_ok) ==
    IF t = <<>> THEN "info"
    ELSE IF ai_ok THEN "report" ELSE "coffee"

\* ------------------------------------------------------------------ steps
Init ==
    /\ store = <<>>
    /\ handle = 0
    /\ cache = EmptyCache
    /\ op = "init"
    /\ reply = ServiceError
    /\ parsed = PyNone
    /\ logged = NotLogged
    /\ wout = "none"
    /\ appends = <<>>
    /\ msgs = <<>>
    /\ rout = "none"
    /\ df = <<>>
    /\ stats = NoStats
    /\ coach = "none"

\* the rest of a script run after tab 1: df = load_data() (182), tab 2 and
\* tab 3, for the state tab 1 left
Tabs23(st, c, h, clicked, ai) ==
    \E ld \in {load_data(c, st, h, r) : r \in {o \in ReadOutcomes : Possible(h, o)}} :
        /\ cache' = ld.cache
        /\ handle' = ld.handle
        /\ rout' = ld.rout
        /\ df' = ld.df
        /\ stats' \in Tab2Choices(ld.df)
        /\ coach' \in IF clicked
                      THEN {Tab3Click(ld.df, ai_ok) : ai_ok \in ai}
                      ELSE {Tab3Idle(ld.df)}

\* the inputs of tab 1 in a run: the value parsed from the response of the
\* Extraction Service, the Log Store's behaviour, the clock; an append that
\* would grow the sheet beyond MaxRows is left out
Tab1Inputs(st, h) ==
    {x \in {parse_workout(resp) : resp \in Responses}
            \X {o \in WriteOutcomes : Possible(h, o)} \X Days :
        \/ x[2] # "ok"
        \/ x[1].type # "list"
        \/ Len(st) + Len(x[1].items) <= MaxRows}

\* a script run with LOG SESSION pressed on a non-empty text
Submit ==
    \E t1 \in {LogSession(x[1], x[2], x[3], store, cache, handle) :
                x \in Tab1Inputs(store, handle)} :
        /\ Len(t1.store) <= MaxRows
        /\ op' = "submit"
        /\ store' = t1.store
        /\ logged' = t1.logged
        /\ wout' = t1.wout
        /\ appends' = t1.appends
        /\ msgs' = t1.msgs
        /\ Tabs23(t1.store, t1.cache, t1.handle, FALSE, {FALSE})
        /\ UNCHANGED <<reply, parsed>>

\* a script run with nothing submitted: page load, selectbox change, or
\* LOG SESSION on an empty text
Rerun ==
    /\ op' = "rerun"
    /\ logged' = NotLogged
    /\ wout' = "none"
    /\ appends' = <<>>
    /\ msgs' = <<>>
    /\ Tabs23(store, cache, handle, FALSE, {FALSE})
    /\ UNCHANGED <<store, reply, parsed>>

\* a script run with GENERATE REPORT pressed; the button exists only on a
\* page that was rendered for a table with rows
Coach ==
    /\ coach \in {"button", "report", "coffee"}
    /\ op' = "coach"
    /\ logged' = NotLogged
    /\ wout' = "none"
    /\ appends' = <<>>
    /\ msgs' = <<>>
    /\ Tabs23(store, cache, handle, TRUE, BOOLEAN)
    /\ UNCHANGED <<store, reply, parsed>>

\* the 60 seconds of ttl=60 pass: the entry of load_data is dropped
TtlExpire ==
    /\ cache.valid
    /\ cache' = EmptyCache
    /\ op' = "ttl"
    /\ UNCHANGED <<store, handle, reply, parsed, logged, wout, appends, msgs,
                   rout, df, stats, coach>>

Next == Submit \/ Rerun \/ Coach \/ TtlExpire

Spec == Init /\ [][Next]_vars

TypeOK ==
    /\ Len(store) <= MaxRows
    /\ handle \in 0..1
    /\ wout \in WriteOutcomes \cup {"none", "build"}
    /\ rout \in ReadOutcomes \cup {"none", "hit", "empty"}

\* --------------------------------------------- parse_workout on its own
\* every response of the Extraction Service, then the call
InitParse ==
    /\ reply \in Responses
    /\ store = <<>>
    /\ handle = 0
    /\ cache = EmptyCache
    /\ op = "init"
    /\ parsed = PyNone
    /\ logged = NotLogged
    /\ wout = "none"
    /\ appends = <<>>
    /\ msgs = <<>>
    /\ rout = "none"
    /\ df = <<>>
    /\ stats = NoStats
    /\ coach = "none"

ParseStep ==
    /\ op = "init"
    /\ op' = "parse"
    /\ parsed' = parse_workout(reply)
    /\ UNCHANGED <<store, handle, cache, reply, logged, wout, appends, msgs,
                   rout, df, stats, coach>>

NextParse == ParseStep

SpecParse == InitParse /\ [][NextParse]_vars

\* ------------------------------------------------------ tab 2 on its own
\* rows a sheet may hold for the chart: two exercises of one group, a row
\* of another group, weights with a cell that is no number
StatRows ==
    {<<d, <<"a", "b">>, w, "10", "", "Legs">> :
        d \in Days, w \in {"50", "65", "70", "bw"}}
        \cup {<<1, <<"b">>, "65", "8", "", "Legs">>,
              <<2, <<"a", "b">>, "65", "8", "", "Other">>}

\* the tables load_data returns for such sheets
StatTables ==
    {[i \in DOMAIN st |-> Normalise(get_all_records(st)[i])] :
        st \in SeqsUpTo(StatRows, MaxTable)}

InitStats ==
    /\ df \in StatTables
    /\ store = <<>>
    /\ handle = 0
    /\ cache = EmptyCache
    /\ op = "init"
    /\ reply = ServiceError
    /\ parsed = PyNone
    /\ logged = NotLogged
    /\ wout = "none"
    /\ appends = <<>>
    /\ msgs = <<>>
    /\ rout = "none"
    /\ stats = NoStats
    /\ coach = "none"

RenderStats ==
    /\ op = "init"
    /\ op' = "stats"
    /\ stats' \in Tab2Choices(df)
    /\ UNCHANGED <<store, handle, cache, reply, parsed, logged, wout, appends,
                   msgs, rout, df, coach>>

NextStats == RenderStats

SpecStats == InitStats /\ [][NextStats]_vars

\* ----------------------------------------------------------------- claims
WriteFailures == {"connect", "open", "stale", "append"}

\* C1: a submission whose parse is a list of K >= 1 entries and whose write
\* succeeds makes exactly one append call; the call carries K rows, row i
\* built from entry i, all with the date of the first row.
C1_SingleBatchAppend ==
    wout = "ok" =>
        /\ Len(logged.items) >= 1
        /\ Len(appends) = 1
        /\ Len(appends[1]) = Len(logged.items)
        /\ \A i \in DOMAIN appends[1] :
              appends[1][i] = RowOf(appends[1][1][1], logged.items[i].d)

C1_Witness ==
    /\ wout = "ok"
    /\ Len(logged.items) = 2
    /\ logged.items[1] # logged.items[2]
    /\ Len(appends) = 1

\* C2 (as claimed): whenever the response is a service error or its cleaned
\* text is not a JSON array of one or more objects, parse_workout returns
\* None.
C2_NoneUnlessObjectArray ==
    (/\ op = "parse"
     /\ ~(/\ ~reply.error
          /\ reply.body.kind = "json"
          /\ reply.body.value.type = "list"
          /\ Len(reply.body.value.items) >= 1
          /\ \A i \in DOMAIN reply.body.value.items :
                reply.body.value.items[i].isdict))
        => parsed = PyNone

\* C3: the rows a submission writes for an array of N objects are N rows,
\* the last N of the sheet, row i holding in the column order date,
\* exercise, weight, reps, notes, muscle_group the values of object i, the
\* exercise title-cased, a missing key replaced by its default.
C3_RowsWithDefaults ==
    wout = "ok" =>
        LET rows == Flatten(appends)
            N == Len(logged.items)
        IN  /\ Len(rows) = N
            /\ Len(store) >= N
            /\ SubSeq(store, Len(store) - N + 1, Len(store)) = rows
            /\ \A i \in 1..N :
                  LET o == logged.items[i].d
                      row == rows[i]
                  IN  /\ Len(row) = 6
                      /\ row[1] \in Days
                      /\ row[2] = IF "exercise" \in DOMAIN o
                                  THEN Title(o["exercise"]) ELSE Unknown
                      /\ row[3] = IF "weight" \in DOMAIN o
                                  THEN o["weight"] ELSE "0"
                      /\ row[4] = IF "reps" \in DOMAIN o
                                  THEN o["reps"] ELSE "0"
                      /\ row[5] = IF "notes" \in DOMAIN o
                                  THEN o["notes"] ELSE ""
                      /\ row[6] = IF "muscle_group" \in DOMAIN o
                                  THEN o["muscle_group"] ELSE "Other"

C3_Witness ==
    /\ wout = "ok"
    /\ Len(logged.items) = 2
    /\ logged.items[1].d = ObjNotes
    /\ logged.items[2].d = ObjFull50
    /\ store[Len(store)][3] = "50"

\* C4 (as claimed): after a run whose write failed, the error is shown with
\* its cause, nothing was appended, and load_data did not answer from its
\* cache.
C4_FailureInvalidatesCache ==
    (op = "submit" /\ wout \in WriteFailures) =>
        /\ msgs = <<Error(wout)>>
        /\ appends = <<>>
        /\ rout # "hit"

\* C4 (amended): a run whose write fails shows the error with its cause,
\* appends nothing, leaves the sheet as it was, and leaves a live cache
\* entry of load_data in place: load_data answers from it in the same run.
C4_FailureKeepsCache ==
    [][(op' = "submit" /\ wout' \in WriteFailures) =>
          /\ msgs' = <<Error(wout')>>
          /\ appends' = <<>>
          /\ store' = store
          /\ cache.valid =>
                (rout' = "hit" /\ df' = cache.table /\ cache' = cache)]_vars

C4_Witness ==
    /\ op = "submit"
    /\ wout = "append"
    /\ rout = "hit"
    /\ df # <<>>
    /\ cache = [valid |-> TRUE, table |-> df]

\* C5 (as claimed): after a run that appended rows, the table load_data
\* returned in that run holds, for every written entry, a row with the
\* entry's exercise title-cased and the entry's weight, reps and notes (the
\* default where the entry has no such key).
C5_RoundTrip ==
    wout = "ok" =>
        \A i \in DOMAIN logged.items :
            \E j \in DOMAIN df :
                /\ df[j]["Exercise"] = Title(Get(logged.items[i].d, "exercise", Unknown))
                /\ df[j]["Weight"] = Get(logged.items[i].d, "weight", "0")
                /\ df[j]["Reps"] = Get(logged.items[i].d, "reps", "0")
                /\ df[j]["Notes"] = Get(logged.items[i].d, "notes", "")

\* C5 (amended): after a run that appended rows, load_data did not answer
\* from its cache in that run; when its fetch succeeded the table holds the
\* whole sheet and, for every written entry, a row with the entry's
\* exercise title-cased and stripped of surrounding blanks and the entry's
\* weight, reps and notes (defaults for missing keys); when its fetch
\* raised the table is empty.
C5_FreshRoundTrip ==
    wout = "ok" =>
        /\ rout \in {"ok", "connect", "open", "stale"}
        /\ rout # "ok" => df = <<>>
        /\ rout = "ok" =>
            /\ Len(df) = Len(store)
            /\ \A i \in DOMAIN logged.items :
                  \E j \in DOMAIN df :
                      /\ df[j]["Exercise"] =
                            Strip(Title(Get(logged.items[i].d, "exercise", Unknown)))
                      /\ df[j]["Weight"] = Get(logged.items[i].d, "weight", "0")
                      /\ df[j]["Reps"] = Get(logged.items[i].d, "reps", "0")
                      /\ df[j]["Notes"] = Get(logged.items[i].d, "notes", "")

C5_Witness ==
    /\ wout = "ok"
    /\ rout = "ok"
    /\ Len(logged.items) = 1
    /\ Len(df) = 2
    /\ logged.items[1].d = ObjBare
    /\ df[2]["Exercise"] = <<"A">>

\* C6: the progress series of the selected group and exercise has one point
\* per distinct date of the selected rows, in ascending date order, each
\* point the largest numeric weight of its date (missing when the date has
\* none), and ALL TIME BEST is the largest numeric weight of the selected
\* rows.
C6_ProgressIsPerDateMax ==
    stats.shown =>
        LET I == {i \in DOMAIN df :
                    /\ df[i]["Muscle Group"] = stats.group
                    /\ df[i]["Exercise"] = stats.ex}
            dates == {df[i]["Date"] : i \in I}
            p == stats.progress
            Largest(J) ==
                LET ws == {ToNumeric(df[i]["Weight"]) : i \in J} \ {NaN}
                IN IF ws = {} THEN NaN
                   ELSE CHOOSE x \in ws : \A y \in ws : y <= x
        IN  /\ I # {}
            /\ Len(p) = Cardinality(dates)
            /\ {p[k].Date : k \in DOMAIN p} = dates
            /\ \A k \in 1..(Len(p) - 1) : p[k].Date < p[k + 1].Date
            /\ \A k \in DOMAIN p :
                  p[k].Weight = Largest({i \in I : df[i]["Date"] = p[k].Date})
            /\ stats.max_lift = Largest(I)

C6_Witness ==
    /\ stats.shown
    /\ Len(df) = 3
    /\ df[1]["Date"] = 2 /\ df[1]["Weight"] = "65"
    /\ stats.progress = <<[Date |-> 1, Weight |-> 70], [Date |-> 2, Weight |-> 65]>>
    /\ stats.max_lift = 70

\* C7: when load_data ran its body and the sheet was empty or the store
\* raised, the table is empty, tab 2 renders no chart and tab 3 only the
\* note, whether or not the report button was pressed.
C7_EmptyTableOnReadFailure ==
    rout \in {"empty", "connect", "open", "stale"} =>
        /\ df = <<>>
        /\ cache = [valid |-> TRUE, table |-> <<>>] \/ op = "ttl"
        /\ stats = NoStats
        /\ coach = "info"

C7_Witness ==
    /\ rout = "open"
    /\ store # <<>>
    /\ df = <<>>
    /\ coach = "info"
    /\ op = "rerun"

\* C8 (as claimed): a run in which a use of the client failed because the
\* client was stale ends with another client in st.cache_resource.
C8_StaleHandleRebuilt ==
    [][(op' \in {"submit", "rerun", "coach"} /\ (wout' = "stale" \/ rout' = "stale"))
          => handle' # handle]_vars

\* C8 (amended): no client exists before the first get_db_connection call;
\* the first script run that reaches the call builds client 1, and from
\* then on every run keeps that same client, also a run in which its use
\* failed because it was stale.
C8_HandleBuiltOnceAndKept ==
    /\ handle = 0
    /\ [][/\ handle # 0 => handle' = handle
          /\ handle' # handle =>
                (handle' = 1 /\ op' \in {"submit", "rerun", "coach"})]_vars

C8_Witness ==
    /\ handle = 1
    /\ wout = "stale"
    /\ rout = "ok"

\* C9: every step leaves the rows the sheet held in place and in order; a
\* step other than a submission that reached append_rows leaves the sheet
\* unchanged; such a submission adds exactly its rows at the end, also when
\* the sheet holds the same rows already.
C9_AppendOnly ==
    [][/\ Len(store') >= Len(store)
       /\ SubSeq(store', 1, Len(store)) = store
       /\ (op' # "submit" \/ wout' # "ok") => store' = store
       /\ (op' = "submit" /\ wout' = "ok") =>
             (store' = store \o Flatten(appends') /\ Len(store') > Len(store))]_vars

C9_Witness ==
    /\ Len(store) = 2
    /\ store[1] = store[2]
    /\ wout = "ok"
    /\ appends = <<<<store[2]>>>>

\* C10 (as claimed): a run shows an error message only if it appended no
\* row.
C10_ErrorOnlyWithoutRows ==
    (\E i \in DOMAIN msgs : msgs[i].kind \in {"error", "ai_error"})
        => appends = <<>>

====
